---- MODULE Spec2Model ----
(***************************************************************************)
(* kedro-azureml: translation of a Kedro pipeline into an Azure ML         *)
(* pipeline job (generator.py), its submission (client.py / cli.py run),   *)
(* and the worker-side re-entry point (cli.py execute, runner.py).         *)
(*                                                                         *)
(* Names are sequences of one-character strings, so that the sanitizer,    *)
(* the "params:" test and the path arithmetic are computed character by    *)
(* character as the Python code computes them.                             *)
(***************************************************************************)
EXTENDS Naturals, Sequences, FiniteSets, TLC

(* ------------------------------ bounds -------------------------------- *)
\* nodes in a pipeline, and input/output declarations in a whole pipeline
MaxNodes == 2
MaxPorts == 3

(* ----------------------------- characters ----------------------------- *)
UpperChars == <<"A","B","C","D","E","F","G","H","I","J","K","L","M",
                "N","O","P","Q","R","S","T","U","V","W","X","Y","Z">>
LowerChars == <<"a","b","c","d","e","f","g","h","i","j","k","l","m",
                "n","o","p","q","r","s","t","u","v","w","x","y","z">>
DigitChars == {"0","1","2","3","4","5","6","7","8","9"}

Range(s) == {s[i] : i \in DOMAIN s}

\* str.lower(), one character
LowerChar(c) ==
    LET upper == {i \in DOMAIN UpperChars : UpperChars[i] = c}
    IN  IF upper = {} THEN c ELSE LowerChars[CHOOSE i \in upper : TRUE]

\* the character class [a-z0-9_] of the regular expression
AllowedChars == Range(LowerChars) \cup DigitChars \cup {"_"}
AllowedChar(c) == c \in AllowedChars

\* re.sub(r"[^a-z0-9_]", "_", param_name.lower())
_sanitize_param_name(s) ==
    [i \in 1..Len(s) |-> LET c == LowerChar(s[i]) IN IF AllowedChar(c) THEN c ELSE "_"]

\* Python's  sub in s  for strings
Contains(s, sub) ==
    \E i \in 0..Len(s) :
        /\ i + Len(sub) <= Len(s)
        /\ \A k \in 1..Len(sub) : s[i + k] = sub[k]

PARAMS == <<"p","a","r","a","m","s",":">>

\* "params:" in name
IsParamName(name) == Contains(name, PARAMS)

(* ------------------------------- names -------------------------------- *)
nAB   == <<"A",".","b">>
nA_B  == <<"a","_","b">>
nX    == <<"x">>
nPK   == PARAMS \o <<"k">>
Names == {nAB, nA_B, nX, nPK}

rSD   == <<"s","d">>
V3    == <<"3">>
LATEST == <<"l","a","t","e","s","t">>

\* None where a string is expected (no string of the model equals it)
None == <<"None">>

(* ------------------------------ dicts --------------------------------- *)
EmptyDict == [k \in {} |-> 0]
Put(d, k, v) == [x \in DOMAIN d \cup {k} |-> IF x = k THEN v ELSE d[x]]

(* ----------------------------- pipelines ------------------------------ *)
\* sequences over S without repetition, of length at most n
SeqsNoDup(S, n) ==
    UNION {{s \in [1..k -> S] : \A i, j \in 1..k : i # j => s[i] # s[j]} : k \in 0..n}

Ports(nd) == Len(nd.inputs) + Len(nd.outputs)

\* Kedro's Node: some input or output, and no dataset both read and written
NodeShapes ==
    UNION {{[inputs |-> ins, outputs |-> outs] :
                outs \in {o \in SeqsNoDup(Names, MaxPorts - Len(ins)) :
                              /\ Len(ins) + Len(o) > 0
                              /\ Range(ins) \cap Range(o) = {}}} :
            ins \in SeqsNoDup(Names, MaxPorts)}

AllInputs(p)  == UNION {Range(p[i].inputs) : i \in DOMAIN p}
AllOutputs(p) == UNION {Range(p[i].outputs) : i \in DOMAIN p}

RECURSIVE TotalPorts(_)
TotalPorts(p) == IF p = <<>> THEN 0 ELSE Ports(p[Len(p)]) + TotalPorts(SubSeq(p, 1, Len(p) - 1))

\* Kedro's Pipeline: every dataset has at most one producer, and pipeline.nodes
\* is topologically sorted (no node reads what it or a later node writes)
CanAppend(ports, written, read, nd) ==
    /\ ports + Ports(nd) <= MaxPorts
    /\ Range(nd.outputs) \cap written = {}
    /\ Range(nd.outputs) \cap read = {}

RECURSIVE PipelinesOf(_)
PipelinesOf(n) ==
    IF n = 0 THEN {<<>>}
    ELSE UNION {LET ports   == TotalPorts(p)
                    written == AllOutputs(p)
                    read    == AllInputs(p)
                IN  {Append(p, nd) :
                        nd \in {s \in NodeShapes : CanAppend(ports, written, read, s)}} :
                    p \in PipelinesOf(n - 1)}

Pipelines == UNION {PipelinesOf(n) : n \in 1..MaxNodes}

\* pipeline.inputs(), pipeline.outputs(): the boundary names
PipelineInputs(p)  == AllInputs(p) \ AllOutputs(p)
PipelineOutputs(p) == AllOutputs(p) \ AllInputs(p)

\* pipeline.node_dependencies[node]: the direct predecessors
NodeDependencies(p, i) ==
    {d \in DOMAIN p : Range(p[d].outputs) \cap Range(p[i].inputs) # {}}

(* ------------------------- generator inputs --------------------------- *)
\* the catalog: registered name -> dataset; AzureMLDataSet carries _name
AzureDS(n) == [type |-> "AzureMLDataSet", name |-> n]
OtherDS(t) == [type |-> t, name |-> <<>>]

CatalogA == (nAB :> AzureDS(rSD)) @@ (nA_B :> OtherDS("CSVDataSet"))
                @@ (nPK :> OtherDS("MemoryDataSet"))
CatalogB == (nX :> AzureDS(nX)) @@ (nA_B :> AzureDS(rSD))

\* params: the serialized extra parameters ("" when none were given)
NoParams  == ""
SomeParams == "{\"k\": 1}"

\* the constructor arguments of the generator: catalog, load_version (dataset
\* name -> version) and params
GeneratorArgs ==
    { [catalog |-> CatalogA, load_version |-> EmptyDict,       params |-> NoParams],
      [catalog |-> CatalogA, load_version |-> (rSD :> V3),     params |-> SomeParams],
      [catalog |-> CatalogA, load_version |-> (rSD :> LATEST), params |-> NoParams],
      [catalog |-> CatalogA, load_version |-> (nAB :> V3),     params |-> SomeParams],
      [catalog |-> CatalogB, load_version |-> (rSD :> V3),     params |-> NoParams],
      [catalog |-> CatalogB, load_version |-> EmptyDict,       params |-> SomeParams] }

\* the -e/--environment option: absent, or the name of an Azure ML environment
envDev == <<"d","e","v">>
Environments == {None, envDev}

\* AZURE_STORAGE_ACCOUNT_KEY, or the answer to the prompt
StorageKeys == {"key1", "key2"}

\* a str or None held where a DataCatalog is expected: an object that has no
\* data sets and no list method
strObject == <<"s","t","r">>
NotACatalog(v) == (strObject :> v)

\* self.catalog has the list method of DataCatalog
IsDataCatalog(c) == strObject \notin DOMAIN c

KedroEnvironment == "local"
PipelineName     == "__default__"
NodeName(i)      == <<"n", i>>

VARIABLES
    pipeline,            \* pipeline.nodes: sequence of [inputs, outputs]
    catalog,             \* self.catalog
    load_versions,       \* self.load_versions
    params,              \* self.params
    pc,                  \* position in generate / run
    ci,                  \* index of the node of the running loop
    cj,                  \* index of the node input of the inner loop
    commands,            \* commands[node] built by _construct_azure_command
    azure_inputs,        \* azure_inputs of the node being wired
    invoked_components,  \* node -> invoked command
    invoke_log,          \* history: the nodes whose command was called, in order
    todo,                \* pipeline outputs not yet visited by _gather_pipeline_outputs
    azure_pipeline_outputs,
    job,                 \* <<the job generate returned>>, NoJob before
    remote_calls         \* history: calls of ml_client.jobs.create_or_update

gvars == <<pipeline, catalog, load_versions, params, pc, ci, cj, commands,
           azure_inputs, invoked_components, invoke_log, todo,
           azure_pipeline_outputs, job, remote_calls>>

\* generate has returned no job
NoJob == <<>>

\* the worker's state (cli.py execute, runner.py)
VARIABLES
    w_pc,            \* position in execute / AzurePipelinesRunner.run
    w_entry,         \* "execute": the CLI command; "run": the runner called directly
    w_argv,          \* the command line execute was started with
    w_node,          \* the pipeline given to the runner: [inputs, outputs] name sets
    data_paths,      \* self.data_paths, as the sequence of its (name, path) items
    w_k,             \* index of the running loop
    heap,            \* the dataset objects, by identity
    heap0,           \* history: the dataset objects when run was entered
    caller_catalog,  \* the catalog passed to run: name -> object identity
    run_catalog,     \* the runner's shallow copy
    azure_outputs,   \* the --az-output paths
    placeholders,    \* the paths that hold output.txt
    node_finished    \* the requested node has finished running

wvars == <<w_pc, w_entry, w_argv, w_node, data_paths, w_k, heap, heap0,
           caller_catalog, run_catalog, azure_outputs, placeholders, node_finished>>

\* the run command and the client (cli.py run, client.py)
VARIABLES
    wait_for_completion,  \* the --wait-for-completion flag
    stream_calls,         \* history: calls of ml_client.jobs.stream
    logged,               \* history: calls of logger.exception
    is_ok,                \* <<what AzureMLPipelinesClient.run returned>>, <<>> before
    exit_code,            \* <<the exit code of the run command>>, <<>> before
    environment,          \* the -e/--environment option of run and compile
    cli_params,           \* params of run and compile: the --params JSON, "" without
    storage_account_key,  \* the key get_context_and_pipeline obtained
    docker_image,         \* self.docker_image
    output_file           \* <<what compile wrote to --output>>, <<>> before

cvars == <<wait_for_completion, stream_calls, logged, is_ok, exit_code,
           environment, cli_params, storage_account_key, docker_image, output_file>>

\* one AzureMLInputDataSet and the data assets of the workspace (data.py)
VARIABLES
    d_pc,             \* position in __init__ / _load, or the error that left it
    version_load,     \* self._version.load: <<v>>, or <<>> for None
    version_cache,    \* self._version_cache["load"]: <<v>>, or <<>> when empty
    remote_versions,  \* the versions of the data asset self._name; {} = no asset
    data_get_log      \* history: the ml_client.data.get calls of this dataset

dvars == <<d_pc, version_load, version_cache, remote_versions, data_get_log>>

vars == <<gvars, wvars, cvars, dvars>>

(* ------------------------ _prepare_command ---------------------------- *)
\* "${{inputs.<key>}}" / "${{outputs.<key>}}"
Placeholder(io, key) == [io |-> io, key |-> key]

\* variant: the placeholder built from the raw name, lines 176 and 188 without
\* the call of _sanitize_param_name
DataPathItem_Unsanitized(io, name) ==
    [opt |-> "--data-path", args |-> <<name, Placeholder(io, name)>>]

\* one "--data-path=<name> ${{<io>.<key>}}" item
DataPathItem(io, name) ==
    [opt |-> "--data-path", args |-> <<name, Placeholder(io, _sanitize_param_name(name))>>]

InputDataPathNames(nd) == SelectSeq(nd.inputs, LAMBDA n : ~IsParamName(n))

input_data_paths(nd) ==
    [k \in 1..Len(InputDataPathNames(nd)) |-> DataPathItem("inputs", InputDataPathNames(nd)[k])]

output_data_paths(nd) ==
    [k \in 1..Len(nd.outputs) |-> DataPathItem("outputs", nd.outputs[k])]

\* the command line, as the sequence of its options
_prepare_command(p, i, prm) ==
    << [opt |-> "-e", args |-> <<KedroEnvironment>>],
       [opt |-> "execute", args |-> <<>>],
       [opt |-> "--pipeline", args |-> <<PipelineName>>],
       [opt |-> "--node", args |-> <<NodeName(i)>>] >>
    \o input_data_paths(p[i]) \o output_data_paths(p[i])
    \o (IF prm # NoParams THEN << [opt |-> "--params", args |-> <<prm>>] >> ELSE <<>>)

(* --------------------- _construct_azure_command ----------------------- *)
\* a dict comprehension: a later pair with the same key replaces the earlier
LastIndex(names, k) ==
    CHOOSE i \in DOMAIN names :
        /\ _sanitize_param_name(names[i]) = k
        /\ \A j \in DOMAIN names : j > i => _sanitize_param_name(names[j]) # k

\* {self._sanitize_param_name(name): vals[name] for name in names}
DictOf(names, vals) ==
    [k \in {_sanitize_param_name(names[i]) : i \in DOMAIN names} |-> vals[LastIndex(names, k)]]

InputType(p, name) ==
    IF name \in PipelineInputs(p) /\ IsParamName(name) THEN "string" ELSE "uri_folder"

_construct_azure_command(p, i, prm) ==
    [ node    |-> i,
      command |-> _prepare_command(p, i, prm),
      inputs  |-> DictOf(p[i].inputs,
                         [k \in DOMAIN p[i].inputs |-> InputType(p, p[i].inputs[k])]),
      outputs |-> DictOf(p[i].outputs, [k \in DOMAIN p[i].outputs |-> "uri_folder"]) ]

(* ------------------------ _get_versioned_name ------------------------- *)
\* self.load_versions.get(dataset_name)
Get(d, k) == IF k \in DOMAIN d THEN d[k] ELSE None

\* variant: the "latest" sentinel of line 121 treated as a version number
_get_versioned_name_NoSentinel(lv, dataset_name) ==
    LET version == Get(lv, dataset_name) IN
    IF version = None
    THEN dataset_name \o <<"@">> \o LATEST
    ELSE dataset_name \o <<":">> \o version

\* f"{dataset_name}@latest" / f"{dataset_name}:{version}"
_get_versioned_name(lv, dataset_name) ==
    LET version == Get(lv, dataset_name) IN
    IF version = None \/ version = LATEST
    THEN dataset_name \o <<"@">> \o LATEST
    ELSE dataset_name \o <<":">> \o version

(* -------------------------- _connect_commands ------------------------- *)
PortValue(d, key)  == [kind |-> "port", node |-> d, val |-> key]
DatasetValue(path) == [kind |-> "dataset", node |-> 0, val |-> path]
LiteralValue(name) == [kind |-> "literal", node |-> 0, val |-> name]

\* next((d for d in dependencies if node_input in d.outputs), None)
output_from_deps(p, i, node_input) ==
    LET found == {d \in NodeDependencies(p, i) : node_input \in Range(p[d].outputs)} IN
    IF found = {} THEN 0 ELSE CHOOSE d \in found : \A e \in found : d <= e

\* variant: the type check of lines 153-155 dropped
IsAzureMLDataSet_Unchecked(ds) == TRUE

\* isinstance(ds, AzureMLDataSet)
IsAzureMLDataSet(ds) == ds.type = "AzureMLDataSet"

\* variant: the return of line 169 indented into the loop over the nodes
MoreNodes_ReturnInLoop(p, i) == FALSE

\* the for loop over pipeline.nodes has another node after node i
MoreNodes(p, i) == i < Len(p)

\* calling a command with its inputs: the invoked component and its output ports
Invoked(cmd, ins) ==
    [ node    |-> cmd.node,
      inputs  |-> ins,
      outputs |-> [k \in DOMAIN cmd.outputs |-> PortValue(cmd.node, k)] ]

(* ------------------------------ generate ------------------------------ *)
\* generate is entered
GenerateEntered ==
    /\ pc = "construct"
    /\ ci = 1
    /\ cj = 1
    /\ commands = <<>>
    /\ azure_inputs = EmptyDict
    /\ invoked_components = EmptyDict
    /\ invoke_log = <<>>
    /\ todo = {}
    /\ azure_pipeline_outputs = EmptyDict
    /\ job = NoJob
    /\ remote_calls = 0

\* the generator constructed with a DataCatalog, by keyword
GenInit ==
    /\ pipeline \in Pipelines
    /\ \E args \in GeneratorArgs :
          /\ catalog = args.catalog
          /\ load_versions = args.load_version
          /\ params = args.params
    /\ GenerateEntered

\* generate, lines 46-49: one iteration of the loop building the commands
ConstructCommand ==
    /\ pc = "construct"
    /\ commands' = Append(commands, _construct_azure_command(pipeline, ci, params))
    /\ IF ci < Len(pipeline)
       THEN ci' = ci + 1 /\ pc' = pc
       ELSE ci' = 1 /\ pc' = "connect"
    /\ UNCHANGED <<wvars, cvars, dvars>>
    /\ UNCHANGED <<pipeline, catalog, load_versions, params, cj, azure_inputs,
                   invoked_components, invoke_log, todo, azure_pipeline_outputs,
                   job, remote_calls>>

\* _connect_commands, lines 141-167: one iteration of the loop over node.inputs
BindInput ==
    /\ pc = "connect"
    /\ cj <= Len(pipeline[ci].inputs)
    /\ LET node_input == pipeline[ci].inputs[cj]
           sanitized_input_name == _sanitize_param_name(node_input)
           dep == output_from_deps(pipeline, ci, node_input)
       IN
       IF dep # 0
       THEN IF dep \in DOMAIN invoked_components
               /\ sanitized_input_name \in DOMAIN invoked_components[dep].outputs
            THEN /\ azure_inputs' = Put(azure_inputs, sanitized_input_name,
                                        invoked_components[dep].outputs[sanitized_input_name])
                 /\ cj' = cj + 1
                 /\ pc' = pc
            ELSE /\ pc' = "key_error"
                 /\ UNCHANGED <<azure_inputs, cj>>
       ELSE IF ~IsDataCatalog(catalog)
       THEN /\ pc' = "attribute_error"
            /\ UNCHANGED <<azure_inputs, cj>>
       ELSE IF node_input \in DOMAIN catalog /\ ~IsParamName(node_input)
       THEN IF IsAzureMLDataSet(catalog[node_input])
            THEN /\ azure_inputs' =
                        Put(azure_inputs, sanitized_input_name,
                            DatasetValue(_get_versioned_name(load_versions,
                                                             catalog[node_input].name)))
                 /\ cj' = cj + 1
                 /\ pc' = pc
            ELSE /\ pc' = "type_error"
                 /\ UNCHANGED <<azure_inputs, cj>>
       ELSE /\ azure_inputs' = Put(azure_inputs, sanitized_input_name,
                                   LiteralValue(node_input))
            /\ cj' = cj + 1
            /\ pc' = pc
    /\ UNCHANGED <<wvars, cvars, dvars>>
    /\ UNCHANGED <<pipeline, catalog, load_versions, params, ci, commands,
                   invoked_components, invoke_log, todo, azure_pipeline_outputs,
                   job, remote_calls>>

\* _connect_commands, line 168 (and 169 after the last node)
InvokeCommand ==
    /\ pc = "connect"
    /\ cj > Len(pipeline[ci].inputs)
    /\ invoked_components' = Put(invoked_components, ci, Invoked(commands[ci], azure_inputs))
    /\ invoke_log' = Append(invoke_log, ci)
    /\ azure_inputs' = EmptyDict
    /\ cj' = 1
    /\ IF MoreNodes(pipeline, ci)
       THEN ci' = ci + 1 /\ pc' = pc /\ todo' = todo
       ELSE ci' = 1 /\ pc' = "gather" /\ todo' = PipelineOutputs(pipeline)
    /\ UNCHANGED <<wvars, cvars, dvars>>
    /\ UNCHANGED <<pipeline, catalog, load_versions, params, commands,
                   azure_pipeline_outputs, job, remote_calls>>

\* next((n for n in pipeline.nodes if pipeline_output in n.outputs), None)
source_node(p, pipeline_output) ==
    LET found == {n \in DOMAIN p : pipeline_output \in Range(p[n].outputs)} IN
    IF found = {} THEN 0 ELSE CHOOSE n \in found : \A m \in found : n <= m

\* _gather_pipeline_outputs, lines 106-116: one iteration; pipeline.outputs() is
\* a set, so the order of the iterations is any order
GatherOutput ==
    /\ pc = "gather"
    /\ \E pipeline_output \in todo :
        LET sanitized_output_name == _sanitize_param_name(pipeline_output)
            src == source_node(pipeline, pipeline_output)
        IN
        /\ todo' = todo \ {pipeline_output}
        /\ IF src = 0
           THEN pc' = "assertion_error" /\ UNCHANGED azure_pipeline_outputs
           ELSE IF src \in DOMAIN invoked_components
                   /\ sanitized_output_name \in DOMAIN invoked_components[src].outputs
           THEN /\ azure_pipeline_outputs' =
                       Put(azure_pipeline_outputs, sanitized_output_name,
                           invoked_components[src].outputs[sanitized_output_name])
                /\ pc' = pc
           ELSE pc' = "key_error" /\ UNCHANGED azure_pipeline_outputs
    /\ UNCHANGED <<wvars, cvars, dvars>>
    /\ UNCHANGED <<pipeline, catalog, load_versions, params, ci, cj, commands,
                   azure_inputs, invoked_components, invoke_log, job, remote_calls>>

\* lines 58-65: the job is built from the invoked components and the outputs
ReturnJob ==
    /\ pc = "gather"
    /\ todo = {}
    /\ job' = << [name |-> PipelineName, components |-> invoked_components,
                  outputs |-> azure_pipeline_outputs] >>
    /\ pc' = "done"
    /\ UNCHANGED <<wvars, cvars, dvars>>
    /\ UNCHANGED <<pipeline, catalog, load_versions, params, ci, cj, commands,
                   azure_inputs, invoked_components, invoke_log, todo,
                   azure_pipeline_outputs, remote_calls>>

(* ---------------------- AzureMLPipelinesClient.run -------------------- *)
ClientIdle ==
    /\ wait_for_completion = FALSE
    /\ stream_calls = 0
    /\ logged = 0
    /\ is_ok = <<>>
    /\ exit_code = <<>>
    /\ output_file = <<>>

\* the generator was not constructed by get_context_and_pipeline
NoCli ==
    /\ environment = None
    /\ cli_params = params
    /\ storage_account_key = None
    /\ docker_image = None

\* client.py 53-55: the cluster lookup and its assert; without a cluster no
\* statement after the assert is reached (with asserts compiled out, cluster
\* is unbound at line 58)
GetCluster ==
    /\ pc = "done"
    /\ job # NoJob
    /\ \E wait \in BOOLEAN : wait_for_completion' = wait
    /\ \E cluster \in BOOLEAN :
          pc' = IF cluster THEN "create" ELSE "no_cluster"
    /\ UNCHANGED <<stream_calls, logged, is_ok, exit_code, environment, cli_params,
                   storage_account_key, docker_image, output_file>>
    /\ UNCHANGED <<wvars, dvars>>
    /\ UNCHANGED <<pipeline, catalog, load_versions, params, ci, cj, commands,
                   azure_inputs, invoked_components, invoke_log, todo,
                   azure_pipeline_outputs, job, remote_calls>>

\* variant: lines 78-79 reached when wait_for_completion is set
WaitsForCompletion_Never(wait) == FALSE

\* client.py 71: if wait_for_completion
WaitsForCompletion(wait) == wait

\* client.py 62-71 and 78-79: the one jobs.create_or_update call; when it
\* returns the job exists, its URL is echoed, and run returns True unless it
\* is to wait
CreateOrUpdate ==
    /\ pc = "create"
    /\ remote_calls' = remote_calls + 1
    /\ \E raises \in BOOLEAN :
          IF raises
          THEN /\ pc' = "create_error"
               /\ is_ok' = is_ok
          ELSE IF WaitsForCompletion(wait_for_completion)
          THEN /\ pc' = "stream"
               /\ is_ok' = is_ok
          ELSE /\ pc' = "returned"
               /\ is_ok' = <<TRUE>>
    /\ UNCHANGED <<wait_for_completion, stream_calls, logged, exit_code, environment,
                   cli_params, storage_account_key, docker_image, output_file>>
    /\ UNCHANGED <<wvars, dvars>>
    /\ UNCHANGED <<pipeline, catalog, load_versions, params, ci, cj, commands,
                   azure_inputs, invoked_components, invoke_log, todo,
                   azure_pipeline_outputs, job>>

\* client.py 72-77: the one jobs.stream call, and the handler of its exception
StreamJob ==
    /\ pc = "stream"
    /\ stream_calls' = stream_calls + 1
    /\ \E raises \in BOOLEAN :
          IF raises
          THEN /\ logged' = logged + 1
               /\ is_ok' = <<FALSE>>
          ELSE /\ logged' = logged
               /\ is_ok' = <<TRUE>>
    /\ pc' = "returned"
    /\ UNCHANGED <<wait_for_completion, exit_code, environment, cli_params,
                   storage_account_key, docker_image, output_file>>
    /\ UNCHANGED <<wvars, dvars>>
    /\ UNCHANGED <<pipeline, catalog, load_versions, params, ci, cj, commands,
                   azure_inputs, invoked_components, invoke_log, todo,
                   azure_pipeline_outputs, job, remote_calls>>

\* cli.py 153-169: the exit code of the run command
RunExit ==
    /\ pc = "returned"
    /\ exit_code' = IF is_ok[1] THEN <<0>> ELSE <<1>>
    /\ pc' = "submitted"
    /\ UNCHANGED <<wait_for_completion, stream_calls, logged, is_ok, environment,
                   cli_params, storage_account_key, docker_image, output_file>>
    /\ UNCHANGED <<wvars, dvars>>
    /\ UNCHANGED <<pipeline, catalog, load_versions, params, ci, cj, commands,
                   azure_inputs, invoked_components, invoke_log, todo,
                   azure_pipeline_outputs, job, remote_calls>>

\* the run command without --wait-for-completion when the cluster exists and
\* the job is created, as one step: client.py 52-69 and 78-79, cli.py 153-169
SubmitJob ==
    /\ pc = "done"
    /\ job # NoJob
    /\ wait_for_completion' = FALSE
    /\ remote_calls' = remote_calls + 1
    /\ is_ok' = <<TRUE>>
    /\ exit_code' = <<0>>
    /\ pc' = "submitted"
    /\ UNCHANGED <<stream_calls, logged, environment, cli_params, storage_account_key,
                   docker_image, output_file>>
    /\ UNCHANGED <<wvars, dvars>>
    /\ UNCHANGED <<pipeline, catalog, load_versions, params, ci, cj, commands,
                   azure_inputs, invoked_components, invoke_log, todo,
                   azure_pipeline_outputs, job>>

\* cli.py 209-215: compile writes the job to the output file
Compile ==
    /\ pc = "done"
    /\ job # NoJob
    /\ output_file' = job
    /\ pc' = "compiled"
    /\ UNCHANGED <<wait_for_completion, stream_calls, logged, is_ok, exit_code,
                   environment, cli_params, storage_account_key, docker_image>>
    /\ UNCHANGED <<wvars, dvars>>
    /\ UNCHANGED <<pipeline, catalog, load_versions, params, ci, cj, commands,
                   azure_inputs, invoked_components, invoke_log, todo,
                   azure_pipeline_outputs, job, remote_calls>>

(* ======================= the worker: cli.py execute ==================== *)
MaxPaths == 2

mnt   == <<"m","n","t">>
data  == <<"d","a","t","a">>
nY    == <<"y">>
nZ    == <<"z">>
WNames == <<nX, nY, nZ>>
MountDirs == {<<mnt, <<"a">>>>, <<mnt, <<"b">>>>}
OutDirs   == <<<<mnt, <<"o">>>>, <<mnt, <<"q">>>>, <<mnt, <<"g","o","n","e">>>>>>
\* directories that exist on the worker
ExistingDirs == MountDirs \cup {OutDirs[1], OutDirs[2]}

\* pathlib: Path(p) / name, and Path(p).name
PathJoin(p, name) == Append(p, name)
PathName(p) == p[Len(p)]


(* --------------------------- option parsing --------------------------- *)
\* cli.py 32-41: the options of the azureml group
GroupOptions == {"-k", "--kedro-env", "-h", "--help"}
\* cli.py 218-242: the options of execute
ExecuteOptions == {"-p", "--pipeline", "-n", "--node", "--params", "--az-output",
                   "-h", "--help"}

CommandPos(argv) ==
    IF \E i \in DOMAIN argv : argv[i].opt = "execute"
    THEN CHOOSE i \in DOMAIN argv :
            argv[i].opt = "execute" /\ \A j \in DOMAIN argv : argv[j].opt = "execute" => i <= j
    ELSE 0

\* click accepts the command line: every option is declared where it stands,
\* and the required --node is given
ParseOK(argv) ==
    LET e == CommandPos(argv) IN
    /\ e # 0
    /\ \A i \in DOMAIN argv : i < e => argv[i].opt \in GroupOptions
    /\ \A i \in DOMAIN argv : i > e => argv[i].opt \in ExecuteOptions
    /\ \E i \in DOMAIN argv : i > e /\ argv[i].opt \in {"-n", "--node"}

\* the values of a multiple=True option, in order
RECURSIVE OptionValues(_, _)
OptionValues(argv, opt) ==
    IF argv = <<>> THEN <<>>
    ELSE (IF Head(argv).opt = opt THEN <<Head(argv).args[1]>> ELSE <<>>)
         \o OptionValues(Tail(argv), opt)

\* the (name, path placeholder) pairs a command line carries
CommandLinePairs(argv) ==
    {<<argv[i].args[1], argv[i].args[2]>> : i \in {k \in DOMAIN argv : argv[k].opt = "--data-path"}}

\* runner.py 14: the default of data_paths
DefaultDataPaths == <<>>

\* cli.py 244-253: execute is entered with a command line
ExecuteStart(argv) ==
    /\ w_pc = "idle"
    /\ w_argv' = argv
    /\ w_entry' = "execute"
    /\ IF ParseOK(argv)
       THEN /\ w_pc' = "bind"
            /\ data_paths' = DefaultDataPaths
            /\ azure_outputs' = OptionValues(argv, "--az-output")
            /\ run_catalog' = caller_catalog
       ELSE /\ w_pc' = "usage_error"
            /\ UNCHANGED <<data_paths, azure_outputs, run_catalog>>
    /\ w_k' = 1
    /\ heap0' = heap
    /\ UNCHANGED <<w_node, heap, caller_catalog, placeholders, node_finished>>
    /\ UNCHANGED <<gvars, cvars, dvars>>

(* ---------------------- AzurePipelinesRunner.run ---------------------- *)
NoVersion == "None"
FileDS(t, sup, fp, ver) == [type |-> t, supertype |-> sup, filepath |-> fp, version |-> ver]

\* variant: the fallback file placed outside the mapped directory
create_default_data_set_Relative(path, ds_name) ==
    FileDS("PickleDataSet", "PickleDataSet",
           <<ds_name \o <<".","p","i","c","k","l","e">>>>, NoVersion)

\* PickleDataSet(str(Path(self.data_paths[ds_name]) / f"{ds_name}.pickle"))
create_default_data_set(path, ds_name) ==
    FileDS("PickleDataSet", "PickleDataSet",
           PathJoin(path, ds_name \o <<".","p","i","c","k","l","e">>), NoVersion)

\* variant: the dataset keeps its class
convert_to_supertype_Kept(ds) == ds

\* AzureMLInputDataSet.convert_to_supertype: self.__class__ = self._supertype
convert_to_supertype(ds) == [ds EXCEPT !.type = ds.supertype]

\* runner.py 31-34: the dataset object after the redirection
Redirected(ds, ds_path) ==
    LET d1 == IF ds.type = "AzureMLInputDataSet" THEN convert_to_supertype(ds) ELSE ds IN
    [d1 EXCEPT !.filepath = PathJoin(ds_path, PathName(ds.filepath)),
               !.version = NoVersion]

PathNames(dp) == {dp[k][1] : k \in DOMAIN dp}
PathOf(dp, n) == dp[CHOOSE k \in DOMAIN dp : dp[k][1] = n][2]

\* run is entered directly with a runner built on a mapping (runner.py 14-25)
RunnerStart(dp) ==
    /\ w_pc = "idle"
    /\ w_entry' = "run"
    /\ data_paths' = dp
    /\ run_catalog' = caller_catalog
    /\ heap0' = heap
    /\ w_k' = 1
    /\ w_pc' = "bind"
    /\ UNCHANGED <<w_argv, w_node, heap, caller_catalog, azure_outputs, placeholders,
                   node_finished>>
    /\ UNCHANGED <<gvars, cvars, dvars>>

\* runner.py 28-37: one iteration of the loop over self.data_paths.items()
RunnerBind ==
    /\ w_pc = "bind"
    /\ w_k <= Len(data_paths)
    /\ LET ds_name == data_paths[w_k][1]
           ds_path == data_paths[w_k][2]
       IN
       IF ds_name \in DOMAIN run_catalog
       THEN /\ heap' = [heap EXCEPT ![run_catalog[ds_name]] = Redirected(@, ds_path)]
            /\ run_catalog' = run_catalog
       ELSE /\ heap' = Append(heap, create_default_data_set(PathOf(data_paths, ds_name), ds_name))
            /\ run_catalog' = Put(run_catalog, ds_name, Len(heap) + 1)
    /\ w_k' = w_k + 1
    /\ UNCHANGED <<w_pc, w_entry, w_argv, w_node, data_paths, heap0, caller_catalog,
                   azure_outputs, placeholders, node_finished>>
    /\ UNCHANGED <<gvars, cvars, dvars>>

\* runner.py 39: the loop is over, the catalog goes to SequentialRunner.run
RunnerLoopDone ==
    /\ w_pc = "bind"
    /\ w_k > Len(data_paths)
    /\ w_pc' = "super"
    /\ UNCHANGED <<w_entry, w_argv, w_node, data_paths, w_k, heap, heap0,
                   caller_catalog, run_catalog, azure_outputs, placeholders,
                   node_finished>>
    /\ UNCHANGED <<gvars, cvars, dvars>>

\* Kedro's run: a required input that is not registered is an error; a dataset
\* of the pipeline that is not registered is built by create_default_data_set,
\* whose self.data_paths[ds_name] (runner.py 42) raises for an unmapped name
CanRunNode ==
    /\ w_node.inputs \subseteq DOMAIN run_catalog
    /\ w_node.outputs \subseteq DOMAIN run_catalog \cup PathNames(data_paths)

\* runner.py 39 / cli.py 253: the node runs, and returns or raises
SuperRun ==
    /\ w_pc = "super"
    /\ \E raises \in BOOLEAN :
        IF CanRunNode /\ ~raises
        THEN /\ node_finished' = TRUE
             /\ w_pc' = IF w_entry = "execute" THEN "placeholders" ELSE "done"
        ELSE /\ node_finished' = FALSE
             /\ w_pc' = "failed"
    /\ w_k' = 1
    /\ UNCHANGED <<w_entry, w_argv, w_node, data_paths, heap, heap0, caller_catalog,
                   run_catalog, azure_outputs, placeholders>>
    /\ UNCHANGED <<gvars, cvars, dvars>>

\* variant: the loop over azure_outputs left after its first item
MorePlaceholders_FirstOnly(outs, i) == i <= Len(outs) /\ i <= 1

\* the loop of cli.py 256 has an item at index i
MorePlaceholders(outs, i) == i <= Len(outs)

\* cli.py 256-257: one iteration of the loop writing the dummy outputs
WritePlaceholder ==
    /\ w_pc = "placeholders"
    /\ MorePlaceholders(azure_outputs, w_k)
    /\ IF azure_outputs[w_k] \in ExistingDirs
       THEN /\ placeholders' = placeholders \cup {azure_outputs[w_k]}
            /\ w_k' = w_k + 1
            /\ w_pc' = w_pc
       ELSE /\ w_pc' = "failed"
            /\ UNCHANGED <<placeholders, w_k>>
    /\ UNCHANGED <<w_entry, w_argv, w_node, data_paths, heap, heap0, caller_catalog,
                   run_catalog, azure_outputs, node_finished>>
    /\ UNCHANGED <<gvars, cvars, dvars>>

\* execute returns
ExecuteReturn ==
    /\ w_pc = "placeholders"
    /\ ~MorePlaceholders(azure_outputs, w_k)
    /\ w_pc' = "done"
    /\ UNCHANGED <<w_entry, w_argv, w_node, data_paths, w_k, heap, heap0,
                   caller_catalog, run_catalog, azure_outputs, placeholders,
                   node_finished>>
    /\ UNCHANGED <<gvars, cvars, dvars>>

(* --------------------------- worker inputs ---------------------------- *)
V1 == "v1"
DatasetTypes == {"CSVDataSet", "AzureMLInputDataSet"}
FileName(n) == n \o <<".","c","s","v">>

\* the registered names of a catalog, in the order of WNames
Registered(kinds) == SelectSeq(WNames, LAMBDA n : kinds[n] # "absent")

HeapOf(kinds) ==
    [k \in 1..Len(Registered(kinds)) |->
        FileDS(kinds[Registered(kinds)[k]], "CSVDataSet",
               <<data, FileName(Registered(kinds)[k])>>, V1)]

CatalogOf(kinds) ==
    [n \in Range(Registered(kinds)) |->
        CHOOSE k \in 1..Len(Registered(kinds)) : Registered(kinds)[k] = n]

CatalogKinds == [Range(WNames) -> DatasetTypes \cup {"absent"}]

\* the mappings: at most MaxPaths names, each with a mounted directory
RECURSIVE MappingsFrom(_, _)
MappingsFrom(i, room) ==
    IF i > Len(WNames) THEN {<<>>}
    ELSE MappingsFrom(i + 1, room)
         \cup (IF room = 0 THEN {}
               ELSE {<<<<WNames[i], d>>>> \o m : d \in MountDirs, m \in MappingsFrom(i + 1, room - 1)})

DataPathSets == MappingsFrom(1, MaxPaths)

WorkerNodes == {[inputs |-> {nX, nZ}, outputs |-> {nY}], [inputs |-> {nX}, outputs |-> {}]}

Tok(o, a) == [opt |-> o, args |-> a]
ManualArgvs ==
    { <<Tok("-k", <<"local">>), Tok("execute", <<>>), Tok("--node", <<"n1">>)>>,
      <<Tok("execute", <<>>), Tok("--node", <<"n1">>),
        Tok("--az-output", <<OutDirs[1]>>), Tok("--az-output", <<OutDirs[2]>>)>>,
      <<Tok("execute", <<>>), Tok("-n", <<"n1">>), Tok("--params", <<"{\"k\": 1}">>),
        Tok("--az-output", <<OutDirs[2]>>), Tok("--az-output", <<OutDirs[3]>>)>>,
      <<Tok("execute", <<>>), Tok("--node", <<"n1">>),
        Tok("--data-path", <<nX, <<mnt, <<"a">>>>>>)>>,
      <<Tok("execute", <<>>), Tok("--az-output", <<OutDirs[1]>>)>> }

WorkerIdle ==
    /\ w_pc = "idle"
    /\ w_entry = "none"
    /\ w_argv = <<>>
    /\ data_paths = <<>>
    /\ w_k = 1
    /\ heap0 = heap
    /\ run_catalog = EmptyDict
    /\ azure_outputs = <<>>
    /\ placeholders = {}
    /\ node_finished = FALSE

(* ==================== data.py: AzureMLInputDataSet ===================== *)
MaxVersions == 3

\* the versions a data asset can have; "latest" is the highest
Versions == 1..MaxVersions
Latest(vs) == CHOOSE v \in vs : \A w \in vs : w <= v

\* no AzureMLInputDataSet is under construction
NoDataSet ==
    /\ d_pc = "none"
    /\ version_load = <<>>
    /\ version_cache = <<>>
    /\ remote_versions = {}
    /\ data_get_log = <<>>

\* one ml_client.data.get call, as recorded in data_get_log: what was asked,
\* whether it raised ResourceNotFoundError, whether the asset existed
GetCall(by, v, vs) ==
    [by |-> by, version |-> v,
     found |-> IF by = "label" THEN vs # {} ELSE v \in vs,
     asset |-> vs # {}]

\* data.py 84-87 with 89-93: __init__ resolves the latest version when no
\* version is given, else keeps the given Version(load, save)
Construct(given, load) ==
    /\ d_pc = "new"
    /\ IF ~given
       THEN /\ data_get_log' = Append(data_get_log, GetCall("label", LATEST, remote_versions))
            /\ IF remote_versions # {}
               THEN /\ version_load' = <<Latest(remote_versions)>>
                    /\ d_pc' = "constructed"
               ELSE /\ version_load' = version_load
                    /\ d_pc' = "DataSetNotFoundError"
       ELSE /\ version_load' = load
            /\ d_pc' = "constructed"
            /\ data_get_log' = data_get_log
    /\ UNCHANGED <<version_cache, remote_versions>>
    /\ UNCHANGED <<gvars, wvars, cvars>>

\* _load is called: the log of this load starts empty
LoadStart ==
    /\ d_pc = "constructed"
    /\ d_pc' = "resolve"
    /\ data_get_log' = <<>>
    /\ UNCHANGED <<version_load, version_cache, remote_versions>>
    /\ UNCHANGED <<gvars, wvars, cvars>>

\* data.py 100: resolve_load_version(): the pinned version, else the cached
\* one, else _fetch_latest_load_version (95-97, 89-93)
ResolveLoadVersion ==
    /\ d_pc = "resolve"
    /\ IF version_load # <<>> \/ version_cache # <<>>
       THEN /\ d_pc' = "get"
            /\ UNCHANGED <<version_cache, data_get_log>>
       ELSE /\ data_get_log' = Append(data_get_log, GetCall("label", LATEST, remote_versions))
            /\ IF remote_versions # {}
               THEN /\ version_cache' = <<Latest(remote_versions)>>
                    /\ d_pc' = "get"
               ELSE /\ version_cache' = version_cache
                    /\ d_pc' = "DataSetNotFoundError"
    /\ UNCHANGED <<version_load, remote_versions>>
    /\ UNCHANGED <<gvars, wvars, cvars>>

\* resolve_load_version() once resolved
resolve_load_version == IF version_load # <<>> THEN version_load[1] ELSE version_cache[1]

\* data.py 100 and 102-108: data.get by version; ResourceNotFoundError
\* becomes VersionNotFoundError
GetAmlDataset ==
    /\ d_pc = "get"
    /\ data_get_log' = Append(data_get_log,
                              GetCall("version", resolve_load_version, remote_versions))
    /\ d_pc' = IF resolve_load_version \in remote_versions
              THEN "loaded" ELSE "VersionNotFoundError"
    /\ UNCHANGED <<version_load, version_cache, remote_versions>>
    /\ UNCHANGED <<gvars, wvars, cvars>>

\* the workspace changes under the dataset: a version is registered, or the
\* data asset is removed
RemoteChange ==
    /\ d_pc \in {"constructed", "resolve", "get"}
    /\ \/ \E v \in Versions \ remote_versions : remote_versions' = remote_versions \cup {v}
       \/ remote_versions # {} /\ remote_versions' = {}
    /\ UNCHANGED <<d_pc, version_load, version_cache, data_get_log>>
    /\ UNCHANGED <<gvars, wvars, cvars>>

(* --------------------------- specifications --------------------------- *)
\* the platform starts a worker with the command line of one node of the job
Launch ==
    /\ pc = "submitted"
    /\ \E n \in DOMAIN commands : ExecuteStart(commands[n].command)

Init ==
    /\ GenInit
    /\ ClientIdle
    /\ NoDataSet
    /\ NoCli
    /\ heap = <<>>
    /\ caller_catalog = EmptyDict
    /\ w_node = [inputs |-> {}, outputs |-> {}]
    /\ WorkerIdle

Next ==
    \/ ConstructCommand
    \/ BindInput
    \/ InvokeCommand
    \/ GatherOutput
    \/ ReturnJob
    \/ SubmitJob
    \/ Launch

\* translation, submission and the start of a worker
Spec == Init /\ [][Next]_vars

WorkerInit ==
    /\ pipeline = <<>>
    /\ catalog = EmptyDict
    /\ load_versions = EmptyDict
    /\ params = NoParams
    /\ pc = "worker"
    /\ ci = 1
    /\ cj = 1
    /\ commands = <<>>
    /\ azure_inputs = EmptyDict
    /\ invoked_components = EmptyDict
    /\ invoke_log = <<>>
    /\ todo = {}
    /\ azure_pipeline_outputs = EmptyDict
    /\ job = NoJob
    /\ remote_calls = 0
    /\ ClientIdle
    /\ NoDataSet
    /\ NoCli
    /\ \E kinds \in CatalogKinds :
        /\ heap = HeapOf(kinds)
        /\ caller_catalog = CatalogOf(kinds)
    /\ w_node \in WorkerNodes
    /\ WorkerIdle

ExecuteCommand == \E argv \in ManualArgvs : ExecuteStart(argv)

RunnerRun == \E dp \in DataPathSets : RunnerStart(dp)

WorkerNext ==
    \/ ExecuteCommand
    \/ RunnerRun
    \/ RunnerBind
    \/ RunnerLoopDone
    \/ SuperRun
    \/ WritePlaceholder
    \/ ExecuteReturn

\* one node on a worker: execute, or the runner called with a mapping
WorkerSpec == WorkerInit /\ [][WorkerNext]_vars

\* cli_functions.py 13-35: the key is read from the environment or the prompt
\* (never empty), and the generator is constructed with six positional
\* arguments: environment lands in catalog, params in docker_image, the key in
\* params; load_version keeps its default
CliInit ==
    /\ pipeline \in Pipelines
    /\ environment \in Environments
    /\ cli_params \in {NoParams, SomeParams}
    /\ storage_account_key \in StorageKeys
    /\ catalog = NotACatalog(environment)
    /\ docker_image = cli_params
    /\ params = storage_account_key
    /\ load_versions = EmptyDict
    /\ GenerateEntered
    /\ ClientIdle
    /\ NoDataSet
    /\ heap = <<>>
    /\ caller_catalog = EmptyDict
    /\ w_node = [inputs |-> {}, outputs |-> {}]
    /\ WorkerIdle

CliNext ==
    \/ ConstructCommand
    \/ BindInput
    \/ InvokeCommand
    \/ GatherOutput
    \/ ReturnJob
    \/ GetCluster
    \/ CreateOrUpdate
    \/ StreamJob
    \/ RunExit
    \/ Compile

\* the run and compile commands: get_context_and_pipeline, generate, then the
\* client or the output file
CliSpec == CliInit /\ [][CliNext]_vars

\* nothing of the generator, the client or a worker is running
GeneratorIdle ==
    /\ pipeline = <<>>
    /\ catalog = EmptyDict
    /\ load_versions = EmptyDict
    /\ params = NoParams
    /\ pc = "dataset"
    /\ ci = 1
    /\ cj = 1
    /\ commands = <<>>
    /\ azure_inputs = EmptyDict
    /\ invoked_components = EmptyDict
    /\ invoke_log = <<>>
    /\ todo = {}
    /\ azure_pipeline_outputs = EmptyDict
    /\ job = NoJob
    /\ remote_calls = 0

DataSetInit ==
    /\ GeneratorIdle
    /\ ClientIdle
    /\ NoCli
    /\ heap = <<>>
    /\ caller_catalog = EmptyDict
    /\ w_node = [inputs |-> {}, outputs |-> {}]
    /\ WorkerIdle
    /\ d_pc = "new"
    /\ version_load = <<>>
    /\ version_cache = <<>>
    /\ remote_versions \in SUBSET Versions
    /\ data_get_log = <<>>

\* the version argument: None, Version(None, None) or Version(v, None)
NewDataSet ==
    \/ Construct(FALSE, <<>>)
    \/ \E load \in {<<>>} \cup {<<v>> : v \in Versions} : Construct(TRUE, load)

DataSetNext ==
    \/ NewDataSet
    \/ LoadStart
    \/ ResolveLoadVersion
    \/ GetAmlDataset
    \/ RemoteChange

\* one AzureMLInputDataSet: constructed, then loaded once
DataSetSpec == DataSetInit /\ [][DataSetNext]_vars

(* ============================== claims ================================= *)
Translated == pc = "gather" \/ job # NoJob
Earlier(k) == {invoke_log[j] : j \in 1..(k - 1)}

\* C1: _connect_commands calls the command of a node at most once, only after
\* the commands of all its direct predecessors were called (their entries are
\* in invoked_components), and when it returns every node was called exactly once.
C1_InvokedOnceAfterPredecessors ==
    /\ \A k, j \in DOMAIN invoke_log : k # j => invoke_log[k] # invoke_log[j]
    /\ \A k \in DOMAIN invoke_log :
          NodeDependencies(pipeline, invoke_log[k]) \subseteq Earlier(k)
    /\ Range(invoke_log) = DOMAIN invoked_components
    /\ Translated => Range(invoke_log) = DOMAIN pipeline

C1_Witness ==
    /\ pc = "gather"
    /\ Len(pipeline) = 2
    /\ NodeDependencies(pipeline, 2) = {1}
    /\ invoke_log = <<1, 2>>

\* two raw names of one list share a port key
Collides(names) ==
    \E a, b \in DOMAIN names :
        a # b /\ _sanitize_param_name(names[a]) = _sanitize_param_name(names[b])
NodeCollides(nd) == Collides(nd.inputs) \/ Collides(nd.outputs)

\* the source the precedence rule gives the raw input name of node i
RuleOf(i, name) ==
    IF \E d \in NodeDependencies(pipeline, i) : name \in Range(pipeline[d].outputs)
    THEN "port"
    ELSE IF name \in DOMAIN catalog /\ ~IsParamName(name) THEN "dataset" ELSE "literal"

BoundAsRuled(i, name) ==
    LET key == _sanitize_param_name(name)
        ins == invoked_components[i].inputs
    IN
    /\ key \in DOMAIN ins
    /\ ins[key].kind = RuleOf(i, name)
    /\ RuleOf(i, name) = "port" =>
          \E d \in NodeDependencies(pipeline, i) :
              /\ name \in Range(pipeline[d].outputs)
              /\ d \in DOMAIN invoked_components
              /\ ins[key] = invoked_components[d].outputs[key]
    /\ RuleOf(i, name) = "literal" => ins[key].val = name

\* C2: in every invoked command, the port keyed sanitize(i) of every raw input
\* name i holds the source the precedence rule gives i (predecessor port, else
\* cloud dataset reference, else the literal i), and every declared input port
\* is bound.
C2_EveryInputBoundByPrecedence ==
    \A i \in DOMAIN invoked_components :
        /\ DOMAIN invoked_components[i].inputs = DOMAIN commands[i].inputs
        /\ \A name \in Range(pipeline[i].inputs) : BoundAsRuled(i, name)

\* C2, the part that holds of the code: restricted to the nodes none of whose
\* input names share a port key
C2_HoldsWithoutCollision ==
    \A i \in DOMAIN invoked_components :
        ~Collides(pipeline[i].inputs) =>
            /\ DOMAIN invoked_components[i].inputs = DOMAIN commands[i].inputs
            /\ \A name \in Range(pipeline[i].inputs) : BoundAsRuled(i, name)

\* C3: when two distinct raw input names, or two distinct raw output names, of
\* a node share a port key, translation fails during command synthesis: no
\* command holds one port for two names, and wiring is never entered.
C3_CollisionFailsBeforeWiring ==
    (\E i \in DOMAIN pipeline : NodeCollides(pipeline[i])) =>
        /\ pc = "construct"
        /\ invoke_log = <<>>
        /\ \A c \in DOMAIN commands :
              /\ Cardinality(DOMAIN commands[c].inputs) = Len(pipeline[c].inputs)
              /\ Cardinality(DOMAIN commands[c].outputs) = Len(pipeline[c].outputs)

\* an input that only the catalog resolves, to a dataset that is not cloud-managed
Offending(i, j) ==
    LET name == pipeline[i].inputs[j] IN
    /\ ~\E d \in NodeDependencies(pipeline, i) : name \in Range(pipeline[d].outputs)
    /\ name \in DOMAIN catalog
    /\ ~IsParamName(name)
    /\ catalog[name].type # "AzureMLDataSet"

OffendingNodes == {i \in DOMAIN pipeline : \E j \in DOMAIN pipeline[i].inputs : Offending(i, j)}
FirstOffendingNode == CHOOSE i \in OffendingNodes : \A k \in OffendingNodes : i <= k
FirstOffendingInput ==
    CHOOSE j \in DOMAIN pipeline[FirstOffendingNode].inputs :
        /\ Offending(FirstOffendingNode, j)
        /\ \A k \in DOMAIN pipeline[FirstOffendingNode].inputs :
              Offending(FirstOffendingNode, k) => j <= k

\* C4: when some node input is resolved by the catalog to a dataset that is not
\* an AzureMLDataSet, generate ends in the TypeError raised at that input: it
\* returns no job, the offending node and every later node are never invoked,
\* and no remote call is made; and the TypeError is raised in no other case.
C4_NonCloudInputAbortsTranslation ==
    LET offending == OffendingNodes
        firstNode  == FirstOffendingNode
        firstInput == FirstOffendingInput
    IN
    /\ offending # {} =>
          /\ pc \in {"construct", "connect", "type_error"}
          /\ job = NoJob
          /\ remote_calls = 0
          /\ w_pc = "idle"
          /\ \A n \in DOMAIN pipeline :
                n >= firstNode =>
                    n \notin Range(invoke_log) /\ n \notin DOMAIN invoked_components
          /\ pc = "connect" =>
                /\ ci <= firstNode
                /\ ci = firstNode => cj <= firstInput
    /\ pc = "type_error" =>
          /\ offending # {}
          /\ ci = firstNode
          /\ cj = firstInput

C4_Witness ==
    /\ pc = "type_error"
    /\ Len(pipeline) = 2
    /\ ci = 1
    /\ cj = 2
    /\ invoke_log = <<>>

\* C5: an input bound by the catalog rule to an AzureMLDataSet with remote name
\* N is bound to the reference "N:v" when load_versions holds a version v for N
\* and v is not "latest", and to "N@latest" otherwise, also when the catalog
\* entry name differs from N.
C5_VersionedReference ==
    (pc = "connect" /\ cj > 1) =>
        LET name == pipeline[ci].inputs[cj - 1]
            N    == catalog[name].name
        IN
        RuleOf(ci, name) = "dataset" =>
            azure_inputs[_sanitize_param_name(name)] =
                DatasetValue(IF N \in DOMAIN load_versions /\ load_versions[N] # LATEST
                             THEN N \o <<":">> \o load_versions[N]
                             ELSE N \o <<"@">> \o LATEST)

C5_Witness ==
    /\ pc = "connect"
    /\ cj = 2
    /\ pipeline[ci].inputs[1] = nAB
    /\ RuleOf(ci, nAB) = "dataset"
    /\ catalog[nAB].name = rSD
    /\ load_versions = (rSD :> V3)
    /\ azure_inputs[<<"a","_","b">>].val = <<"s","d",":","3">>

KeysOf(names) == {_sanitize_param_name(n) : n \in names}

\* C6: the job has exactly one boundary output per pipeline boundary output
\* name, keyed by the sanitized name and bound to the same-key output port of
\* the invoked command of the first node that outputs the name.
C6_OneJobOutputPerBoundaryOutput ==
    job # NoJob =>
        /\ Cardinality(DOMAIN job[1].outputs) = Cardinality(PipelineOutputs(pipeline))
        /\ \A o \in PipelineOutputs(pipeline) :
              /\ _sanitize_param_name(o) \in DOMAIN job[1].outputs
              /\ job[1].outputs[_sanitize_param_name(o)] =
                    invoked_components[source_node(pipeline, o)].outputs[_sanitize_param_name(o)]

\* C6, the part that holds of the code: when no two boundary output names
\* share a port key
C6_HoldsWithoutCollision ==
    (/\ job # NoJob
     /\ Cardinality(KeysOf(PipelineOutputs(pipeline))) = Cardinality(PipelineOutputs(pipeline)))
    =>  /\ DOMAIN job[1].outputs = KeysOf(PipelineOutputs(pipeline))
        /\ \A o \in PipelineOutputs(pipeline) :
              job[1].outputs[_sanitize_param_name(o)] =
                  PortValue(source_node(pipeline, o), _sanitize_param_name(o))

\* the positions of the command line that carry the pair of a raw name and the
\* placeholder of the port it is sanitized to
PairPositions(cmd, io, name) ==
    LET pair == [opt |-> "--data-path",
                 args |-> <<name, Placeholder(io, _sanitize_param_name(name))>>]
    IN {k \in DOMAIN cmd : cmd[k] = pair}
NamesOneNode(cmd, i) ==
    LET nodeOptions == {k \in DOMAIN cmd : cmd[k].opt \in {"--node", "-n"}} IN
    /\ Cardinality(nodeOptions) = 1
    /\ \A k \in nodeOptions : cmd[k] = [opt |-> "--node", args |-> <<NodeName(i)>>]

\* C7 as stated: the command line of a node names that node only and carries
\* one (raw name, placeholder of the sanitized port) pair for every raw input
\* name and every raw output name of the node.
C7_PairForEveryInputAndOutput ==
    \A i \in DOMAIN commands :
        LET cmd == commands[i].command IN
        /\ NamesOneNode(cmd, i)
        /\ \A n \in Range(pipeline[i].inputs) : Cardinality(PairPositions(cmd, "inputs", n)) = 1
        /\ \A n \in Range(pipeline[i].outputs) : Cardinality(PairPositions(cmd, "outputs", n)) = 1

\* C7 as amended: the pairs are those of the input names that do not contain
\* "params:" and of all output names; an input name that contains "params:" is
\* carried by no pair; the command line carries no other pair.
C7_PairForEveryDataInputAndOutput ==
    \A i \in DOMAIN commands :
        LET cmd == commands[i].command
            dataInputs == {n \in Range(pipeline[i].inputs) : ~IsParamName(n)}
        IN
        /\ NamesOneNode(cmd, i)
        /\ \A n \in dataInputs : Cardinality(PairPositions(cmd, "inputs", n)) = 1
        /\ \A n \in Range(pipeline[i].outputs) : Cardinality(PairPositions(cmd, "outputs", n)) = 1
        /\ \A n \in Range(pipeline[i].inputs) \ dataInputs :
              \A k \in DOMAIN cmd : cmd[k].opt = "--data-path" => cmd[k].args[1] # n
        /\ Cardinality({k \in DOMAIN cmd : cmd[k].opt = "--data-path"})
              = Cardinality(dataInputs) + Len(pipeline[i].outputs)

C7_Witness ==
    \E i \in DOMAIN commands :
        /\ pipeline[i].inputs = <<nPK, nAB>>
        /\ pipeline[i].outputs = <<nX>>
        /\ Cardinality({k \in DOMAIN commands[i].command :
                            commands[i].command[k].opt = "--data-path"}) = 2

\* C8: the command line a worker is started with is accepted by execute (every
\* option it carries is declared by the azureml group or by execute), and the
\* data_paths of the runner hold the names the command line pairs with paths.
C8_CommandLineReachesRunner ==
    w_entry = "execute" =>
        /\ \A k \in DOMAIN w_argv :
              w_argv[k].opt \in GroupOptions \cup ExecuteOptions \cup {"execute"}
        /\ w_pc # "usage_error"
        /\ PathNames(data_paths) = {pr[1] : pr \in CommandLinePairs(w_argv)}

\* the loop of run over data_paths is over: the catalog is the one of the run
CatalogReady == w_entry # "none" /\ w_pc \in {"super", "placeholders", "done", "failed"}

PickleName(n) == n \o <<".","p","i","c","k","l","e">>

IsFallback(n) ==
    /\ n \in DOMAIN run_catalog
    /\ heap[run_catalog[n]].type = "PickleDataSet"
    /\ PathName(heap[run_catalog[n]].filepath) = PickleName(n)

\* the file of the dataset is directly under the directory dir
ReadsUnder(n, dir) ==
    /\ n \in DOMAIN run_catalog
    /\ SubSeq(heap[run_catalog[n]].filepath, 1, Len(dir)) = dir
    /\ Len(heap[run_catalog[n]].filepath) = Len(dir) + 1

C11_SubmittedOnceAndExitCode ==
    /\ remote_calls <= 1
    /\ stream_calls <= remote_calls
    /\ logged <= stream_calls
    /\ stream_calls = 1 => wait_for_completion
    /\ pc \in {"no_cluster", "create_error"} => is_ok = <<>> /\ exit_code = <<>>
    /\ pc = "no_cluster" => remote_calls = 0 /\ stream_calls = 0
    /\ pc \in {"returned", "submitted"} => is_ok # <<>> /\ remote_calls = 1
    /\ is_ok # <<>> =>
          /\ pc \in {"returned", "submitted"}
          /\ wait_for_completion => stream_calls = 1
          /\ is_ok = <<FALSE>> <=> logged = 1
    /\ pc = "submitted" <=> exit_code # <<>>
    /\ exit_code # <<>> => exit_code = (IF is_ok = <<FALSE>> THEN <<1>> ELSE <<0>>)

C11_Witness ==
    /\ pc = "submitted"
    /\ wait_for_completion
    /\ remote_calls = 1
    /\ stream_calls = 1
    /\ logged = 1
    /\ is_ok = <<FALSE>>
    /\ exit_code = <<1>>

LastGet == data_get_log[Len(data_get_log)]

\* C12: a load that ends in VersionNotFoundError failed in the lookup of the
\* resolved version of a data asset that exists; a load or construction that
\* ends in DataSetNotFoundError failed in the lookup of "latest" because no
\* data asset exists; and each lookup was attempted once.
C12_VersionAndDataSetErrorsDistinct ==
    /\ d_pc = "VersionNotFoundError" =>
          /\ LastGet.by = "version" /\ ~LastGet.found
          /\ LastGet.asset
    /\ d_pc = "DataSetNotFoundError" =>
          /\ LastGet.by = "label" /\ ~LastGet.found
          /\ ~LastGet.asset
    /\ \A i, j \in DOMAIN data_get_log : i # j => data_get_log[i].by # data_get_log[j].by

\* C12, the part that holds of the code: the error names the lookup that
\* failed, and no lookup is repeated
C12_ErrorNamesTheFailedLookup ==
    /\ d_pc = "VersionNotFoundError" => LastGet.by = "version" /\ ~LastGet.found
    /\ d_pc = "DataSetNotFoundError" =>
          LastGet.by = "label" /\ ~LastGet.found /\ ~LastGet.asset
    /\ d_pc = "loaded" => LastGet.by = "version" /\ LastGet.found
    /\ \A i, j \in DOMAIN data_get_log : i # j => data_get_log[i].by # data_get_log[j].by

\* the loop of run has passed the item of the mapped name n
PositionOf(n) == CHOOSE k \in DOMAIN data_paths : data_paths[k][1] = n
Bound(n) == w_pc = "bind" => PositionOf(n) < w_k

\* the Local-File state of the dataset registered as n
LocalFile(n) ==
    LET ds == heap[run_catalog[n]] IN
    /\ ds.type = heap0[run_catalog[n]].supertype
    /\ ds.type # "AzureMLInputDataSet"
    /\ ds.version = NoVersion
    /\ ds.filepath = PathJoin(PathOf(data_paths, n), PathName(heap0[run_catalog[n]].filepath))

RunEntered == w_entry # "none" /\ w_pc \in {"bind", "super", "placeholders", "done", "failed"}

\* C13: from the iteration of the loop of run that binds it, through the run
\* of the node to the end of run, a registered dataset named in the mapping is
\* in the Local-File state (its underlying type, no version, at <mapped
\* directory>/<its original file name>), before that iteration it is as it was
\* when run was entered, and the node runs only when every such dataset is
\* bound; a registered dataset the mapping does not name stays as it was.
C13_RemoteToLocalOnceAndForAll ==
    RunEntered =>
        /\ \A n \in PathNames(data_paths) \cap DOMAIN caller_catalog :
              /\ run_catalog[n] = caller_catalog[n]
              /\ IF Bound(n) THEN LocalFile(n)
                 ELSE heap[run_catalog[n]] = heap0[run_catalog[n]]
              /\ (w_pc # "bind") => Bound(n)
        /\ \A n \in DOMAIN caller_catalog \ PathNames(data_paths) :
              /\ run_catalog[n] = caller_catalog[n]
              /\ heap[run_catalog[n]] = heap0[run_catalog[n]]
        /\ node_finished => w_pc # "bind"

C13_Witness ==
    /\ w_entry = "run"
    /\ w_pc = "done"
    /\ node_finished
    /\ nX \in PathNames(data_paths)
    /\ nX \in DOMAIN caller_catalog
    /\ heap0[caller_catalog[nX]].type = "AzureMLInputDataSet"
    /\ heap[caller_catalog[nX]].type = "CSVDataSet"
    /\ nZ \in DOMAIN caller_catalog
    /\ nZ \notin PathNames(data_paths)
    /\ heap[caller_catalog[nZ]].type = "AzureMLInputDataSet"

\* C15: when run has ended, the catalog passed in has the entries it had, and
\* every dataset registered in it has the file location, version and type it
\* had when run was entered.
C15_CallerCatalogUnchanged ==
    (w_entry = "run" /\ w_pc \in {"done", "failed"}) =>
        \A n \in DOMAIN caller_catalog :
            /\ caller_catalog[n] \in DOMAIN heap0
            /\ heap[caller_catalog[n]] = heap0[caller_catalog[n]]

\* C15, the part that holds of the code: the entries of the caller's catalog
\* are never changed (the fallback datasets are added to the copy only), and
\* the datasets the mapping does not name are untouched
C15_CallerEntriesUnchanged ==
    RunEntered =>
        /\ \A n \in DOMAIN caller_catalog : caller_catalog[n] \in DOMAIN heap0
        /\ DOMAIN caller_catalog \subseteq DOMAIN run_catalog
        /\ \A n \in DOMAIN run_catalog \ DOMAIN caller_catalog : run_catalog[n] \notin DOMAIN heap0
        /\ \A n \in DOMAIN caller_catalog \ PathNames(data_paths) :
              heap[caller_catalog[n]] = heap0[caller_catalog[n]]

ParamsPayloads(cmd) == {cmd[k].args : k \in {j \in DOMAIN cmd : cmd[j].opt = "--params"}}

\* C14: in a job generated for run or compile, the command line of every node
\* is the one _prepare_command builds from the pipeline and the user's --params
\* JSON alone (so it is the same for every storage account key): its --params
\* payload is that JSON, absent when none was given, and never the key.
C14_KeyNotInCommandLines ==
    job # NoJob =>
        \A i \in DOMAIN commands :
            /\ commands[i].command = _prepare_command(pipeline, i, cli_params)
            /\ ParamsPayloads(commands[i].command) =
                  (IF cli_params = NoParams THEN {} ELSE {<<cli_params>>})
            /\ <<storage_account_key>> \notin ParamsPayloads(commands[i].command)

\* C14, what the code does instead: the payload of every command line of the
\* job is the storage account key, and the user's JSON is in docker_image
C14_KeyIsThePayload ==
    job # NoJob =>
        /\ docker_image = cli_params
        /\ \A i \in DOMAIN commands :
              /\ commands[i].command = _prepare_command(pipeline, i, storage_account_key)
              /\ ParamsPayloads(commands[i].command) = {<<storage_account_key>>}

====
